---- MODULE Spec2Model ----
(***************************************************************************)
(* Job orchestration core of the audio engineer backend:                   *)
(*   backend/audio_pipeline.py  AudioJobPipeline (status store) and        *)
(*                              start_processing_pipeline (orchestrator)   *)
(*   backend/app.py             process_audio, get_job_status, analyze,    *)
(*                              chat_reply and the session map             *)
(*   job_manager.run_heavy_task the concurrency gate (source not in the    *)
(*                              tree: modelled from the design document)   *)
(* The stage adapters (separation, sub-splits, transcription, validation,  *)
(* project generation) are external: each call returns or raises, chosen   *)
(* nondeterministically.                                                   *)
(***************************************************************************)
EXTENDS Integers, Sequences, FiniteSets, TLC

(***************************************************************************)
(* Bounds of the model.                                                    *)
(***************************************************************************)
\* submissions (background tasks) per behaviour of GateSpec; Spec follows one
MaxTasks == 2
\* adapter calls that raise per behaviour of Spec
MaxFaults == 2
\* adapter calls that raise per behaviour of GateSpec
MaxGateFaults == 1
\* readings of the clock that are told apart: later ones equal the last
MaxClock == 4
\* start-analysis and chat requests per behaviour of SessionSpec
MaxRequests == 3
\* start-analysis requests per behaviour of OwnerSpec
MaxOverlap == 1

(***************************************************************************)
(* Inputs.                                                                 *)
(***************************************************************************)
\* job identifiers, as character sequences (one shorter than the 8-character
\* prefix used for the project file name, one longer)
JobIds == { <<"a","b","c","1","2","3">>,
            <<"j","o","b","-","0","0","0","0","2">> }

\* the separation-strategy selector of a submission (Form field "model")
Models == {"demucs", "umx", "spleeter"}

\* the four stems a separation strategy can write
CoarseStems == {"vocals.wav", "drums.wav", "bass.wav", "other.wav"}

\* what an uploaded file separates into
Mixes == { {}, {"bass.wav"}, {"vocals.wav", "bass.wav"},
           {"vocals.wav", "drums.wav", "other.wav"}, CoarseStems }

\* session identifiers the provider clients hand out, and one they never did
SessionIds == {"sess-1", "sess-2"}

\* the modelId of a start-analysis request, as character sequences
ModelIds == { <<"g","p","t","-","4","o">>,
              <<"g","e","m","i","n","i">>,
              <<"g","p","t">> }

\* what a provider returns as the first answer (None: no answer)
Advices == {"Cut 300 Hz on the bass.", "None"}

\* the message of a chat request
Messages == {"Louder?", "Wider?"}

\* what a provider returns as the answer to a message ("": no answer)
Replies == {"Yes.", ""}

(***************************************************************************)
(* Program constants.                                                      *)
(***************************************************************************)
\* job_manager: the configured limit N of simultaneously executing runs
GateLimit == 1

\* audio_pipeline.py:216  job_id[:8]
PrefixLen == 8

\* audio_pipeline.py:173-180  midi_map, in insertion order
midi_map == << <<"vocals_lead.wav", "melody_lead.mid">>,
               <<"bass.wav",        "bass.mid">>,
               <<"guitars.wav",     "guitars.mid">>,
               <<"keys_synth.wav",  "keys_synth.mid">>,
               <<"harmony.wav",     "harmony.mid">>,
               <<"snare.wav",       "drums_notes.mid">> >>

\* the sub-stems each local split writes (audio_pipeline.py:151,157,163)
SubStems(coarse) ==
    CASE coarse = "vocals.wav" -> {"vocals_lead.wav", "vocals_backing.wav"}
      [] coarse = "drums.wav"  -> {"kick.wav", "snare.wav", "hats.wav"}
      [] coarse = "other.wav"  -> {"guitars.wav", "keys_synth.wav", "harmony.wav"}

(***************************************************************************)
(* State.                                                                  *)
(***************************************************************************)
VARIABLES
    statusFile,   \* job id -> the bytes of audio_jobs/<job_id>/status.json
    inputWav,     \* job id -> the mix stored as audio_jobs/<job_id>/input.wav
    stemsDir,     \* job id -> file names in audio_jobs/<job_id>/stems
    midiDir,      \* job id -> file names in audio_jobs/<job_id>/midi
    analysisDir,  \* job id -> file names in audio_jobs/<job_id>/analysis
    run,          \* the background tasks, in submission order
    faultsLeft,   \* adapter calls that may still raise
    submitted,    \* submit-job requests answered so far
    resp,         \* the request just answered and its response, if any
    clock,        \* datetime.now(), as the number of timestamps taken so far
    session_providers,  \* app.py _session_providers: session id -> provider tag
    started,      \* the sessions the provider clients hold: session id -> model id
    advice,       \* job id -> the text of audio_jobs/<job_id>/analysis/advice.txt
    requests      \* start-analysis and chat requests answered so far

\* the state of the session router and of the advice records
sessionVars == <<session_providers, started, advice, requests>>

vars == <<statusFile, inputWav, stemsDir, midiDir, analysisDir, run, faultsLeft,
          submitted, resp, clock, sessionVars>>

Tasks == 1..Len(run)

Last(s) == s[Len(s)]

Min(a, b) == IF a < b THEN a ELSE b

(***************************************************************************)
(* Status store: AudioJobPipeline.                                         *)
(***************************************************************************)
\* Python None
None == "None"

\* JSON text, by the kind of value it spells
JsonNull == [json |-> "null"]
JsonString(s) == [json |-> "string", text |-> s]
JsonNumber(n) == [json |-> "number", digits |-> n]
JsonArray(items) == [json |-> "array", items |-> items]
JsonObject(members) == [json |-> "object", members |-> members]

\* json.dump of the value a status key holds: progress is an int, error a str
\* or None, artifacts a dict of lists of file names, every other value a str
DumpField(key, v) ==
    CASE key = "progress" -> JsonNumber(v)
      [] key = "error" -> IF v = None THEN JsonNull ELSE JsonString(v)
      [] key = "artifacts" ->
            JsonObject([c \in DOMAIN v |->
                JsonArray([k \in DOMAIN v[c] |-> JsonString(v[c][k])])])
      [] OTHER -> JsonString(v)

\* json.dump(status, f, indent=4)
JsonDump(status) ==
    JsonObject([key \in DOMAIN status |-> DumpField(key, status[key])])

\* JsonLoad leaving out the members whose value is null
RECURSIVE JsonLoadDropsNulls(_)
JsonLoadDropsNulls(j) ==
    CASE j.json = "null" -> None
      [] j.json = "string" -> j.text
      [] j.json = "number" -> j.digits
      [] j.json = "array" -> [k \in DOMAIN j.items |-> JsonLoadDropsNulls(j.items[k])]
      [] j.json = "object" ->
            [k \in {m \in DOMAIN j.members : j.members[m].json # "null"} |->
                JsonLoadDropsNulls(j.members[k])]

\* json.load(f): null is None, a string a str, a number an int, an array a
\* list, an object a dict
RECURSIVE JsonLoad(_)
JsonLoad(j) ==
    CASE j.json = "null" -> None
      [] j.json = "string" -> j.text
      [] j.json = "number" -> j.digits
      [] j.json = "array" -> [k \in DOMAIN j.items |-> JsonLoad(j.items[k])]
      [] j.json = "object" -> [k \in DOMAIN j.members |-> JsonLoad(j.members[k])]

\* a status.json that does not exist / was truncated by open(.., "w") and not
\* yet written / holds part of a document / holds the complete JSON text of a
\* document
NoDoc == [nodoc |-> TRUE]
Absent == [content |-> "absent", doc |-> NoDoc]
Empty == [content |-> "empty", doc |-> NoDoc]
Torn == [content |-> "torn", doc |-> NoDoc]
Json(doc) == [content |-> "json", doc |-> JsonDump(doc)]

\* every file name a job directory can hold, in the order os.listdir yields them
FileOrder ==
    << "vocals.wav", "drums.wav", "bass.wav", "other.wav",
       "vocals_lead.wav", "vocals_backing.wav", "kick.wav", "snare.wav", "hats.wav",
       "guitars.wav", "keys_synth.wav", "harmony.wav",
       "melody_lead.mid", "bass.mid", "guitars.mid", "keys_synth.mid", "harmony.mid",
       "drums_notes.mid", "advice.txt" >>

\* [f for f in os.listdir(dir)]
ListDir(files) == SelectSeq(FileOrder, LAMBDA f : f \in files)

\* datetime.now().isoformat()
IsoFormat(now) == <<"isoformat", now>>

\* the clock after a reading
Tick(now) == Min(now + 1, MaxClock)

\* update_status: the dict it builds before opening the file
StatusDoc(job_id, state, progress, message, error, now, stems, midi, analysis) ==
    [ job_id |-> job_id,
      state |-> state,
      progress |-> progress,
      message |-> message,
      error |-> error,
      updated_at |-> IsoFormat(now),
      artifacts |-> [stems |-> ListDir(stems), midi |-> ListDir(midi),
                     analysis |-> ListDir(analysis)] ]

\* get_status: the dict returned, or the exception json.load raises
NotFoundDoc == [error |-> "Job not found"]

GetStatus(file) ==
    CASE file.content = "absent" -> [raised |-> FALSE, value |-> NotFoundDoc]
      [] file.content = "json"   -> [raised |-> FALSE, value |-> JsonLoad(file.doc)]
      [] OTHER                   -> [raised |-> TRUE, value |-> [detail |-> "JSONDecodeError"]]

\* dict.get(key): None when the key is missing
DictGet(d, key) == IF key \in DOMAIN d THEN d[key] ELSE None

\* d[key] = value on a dict
DictSet(d, key, value) == (key :> value) @@ d

\* an answered request: the status code and content of the response, with the
\* job id and session id of the request and the provider adapter it called
Response(code, kind, body) ==
    [code |-> code, kind |-> kind, body |-> body, job_id |-> <<>>,
     sessionId |-> None, via |-> None]

\* get_job_status: the HTTP answer for what get_status returned; an exception
\* that escapes the handler is answered by global_exception_handler
JobStatusResponse(file) ==
    LET got == GetStatus(file)
        status == got.value
    IN  IF got.raised
        THEN Response(400, "exception", status)
        ELSE IF DictGet(status, "error") # None
        THEN Response(400, "status", status)
        ELSE IF "error" \in DOMAIN status /\ status["error"] = "Job not found"
        THEN Response(404, "status", status)
        ELSE Response(200, "status", status)

NoResp == Response(0, "none", NoDoc)

(***************************************************************************)
(* Orchestrator: the locals of one start_processing_pipeline call.         *)
(*   pc        position in the function ("queued": waiting at the gate)    *)
(*   w, buf    phase of the status.json write in progress and its document *)
(*   written   the documents this run has written, in order                *)
(*   calls     the adapter calls this run has made, <<adapter, item, how>> *)
(***************************************************************************)
NewRun(job_id, model) ==
    [ job_id |-> job_id,
      requested |-> model,
      separation_model |-> model,
      success |-> FALSE,
      pc |-> "queued",
      w |-> "idle",
      buf |-> NoDoc,
      i |-> 0,
      midi_summaries |-> <<>>,
      midi_files_found |-> <<>>,
      validation_report |-> NoDoc,
      current_status |-> NoDoc,
      error |-> None,
      written |-> <<>>,
      calls |-> <<>> ]

Called(r, adapter, item, how) ==
    [r EXCEPT !.calls = Append(@, <<adapter, item, how>>)]

\* Raise with an except clause that does not keep str(e)
RaiseDropsText(r, e) == [r EXCEPT !.pc = "status_failed", !.error = None]

\* Raise with an except clause that only logs: the function returns
RaiseReturns(r, e) == [r EXCEPT !.pc = "returned", !.error = e]

\* the except clause of the whole function: str(e) is kept for the failed status
Raise(r, e) == [r EXCEPT !.pc = "status_failed", !.error = e]

\* f"Project_{job_id[:8]}.RPP"
RppName(job_id) ==
    <<"Project_">> \o SubSeq(job_id, 1, Min(PrefixLen, Len(job_id))) \o <<".RPP">>

\* line 124: the umx branch is taken
RunsUmx(r) == r.separation_model = "umx"

\* RunsDemucs without the `or not success` of line 133
RunsDemucsNamedOnly(r) == r.separation_model = "demucs"

\* line 133: the demucs branch is taken
RunsDemucs(r) == r.separation_model = "demucs" \/ ~r.success

\* lines 129-131: umx raised; the run falls back
UmxFailed(r) ==
    [Called(r, "separate_stems_umx", "input.wav", "raised")
        EXCEPT !.separation_model = "demucs"]

\* AfterUmx with the demucs branch written as the elif of the umx branch
AfterUmxElif(r) == [r EXCEPT !.pc = "status30"]

\* after the umx branch: line 133 decides
AfterUmx(r) ==
    [r EXCEPT !.pc = IF RunsDemucs(r) THEN "demucs" ELSE "status30"]

\* the coarse stem each refinement step looks for
RefineSites == {"refine_vocals", "refine_drums", "refine_other"}

RefineStem(pc) ==
    CASE pc = "refine_vocals" -> "vocals.wav"
      [] pc = "refine_drums"  -> "drums.wav"
      [] pc = "refine_other"  -> "other.wav"

RefineNext(pc) ==
    CASE pc = "refine_vocals" -> "refine_drums"
      [] pc = "refine_drums"  -> "refine_other"
      [] pc = "refine_other"  -> "status60"

\* lines 184-186: the first entry of midi_map at or after k whose stem exists;
\* Len(midi_map) + 1 when the loop is over
RECURSIVE NextItem(_, _)
NextItem(stems, k) ==
    IF k > Len(midi_map) THEN k
    ELSE IF midi_map[k][1] \in stems THEN k
    ELSE NextItem(stems, k + 1)

\* ItemProgress without the division by len(midi_map)
ItemProgressUnscaled(k) == 60 + ((k - 1) * 20)

\* line 189: 60 + int((i/len(midi_map)) * 20), i the 0-based index
ItemProgress(k) == 60 + (((k - 1) * 20) \div Len(midi_map))

\* ValidationDue testing the extracted files instead of the summaries
ValidationDueOnFiles(r) == r.midi_files_found # <<>>

\* line 203: validation runs
ValidationDue(r) == r.midi_summaries # <<>>

\* the statement after the transcription loop
AfterLoop(r) == IF ValidationDue(r) THEN "status85" ELSE "status95"

\* the loop moves to its next present stem, or ends
LoopAdvance(r, stems) ==
    LET k == NextItem(stems, r.i + 1)
    IN  [r EXCEPT !.i = k,
                  !.pc = IF k <= Len(midi_map) THEN "status_item" ELSE AfterLoop(r)]

\* ItemFailed without the inner try/except: the exception reaches the top level
ItemFailedAborts(r, stems) == Raise(r, "midi extraction failed")

\* lines 199-200: a transcription item raised; logged, the loop goes on
ItemFailed(r, stems) == LoopAdvance(r, stems)

\* summarize_midi_file(output_midi): the summary text of one MIDI file
Summary(midi_name) == <<"summary of", midi_name>>

\* validate_midi_with_gemini("\n\n".join(midi_summaries)): the report on that text
Report(summaries) == [report_on |-> summaries]

(***************************************************************************)
(* The status.json writes of a run.  Each is open(status_path, "w"), which *)
(* truncates the file, then json.dump and the close that flushes it.       *)
(***************************************************************************)
WriteSites == {"status10", "status30", "status60", "status_item", "status85",
               "merge_vr", "status95", "merge_project", "status100",
               "status_failed"}

\* UpdateStatus as an update of the previous status: a report the run has
\* merged stays in the document
UpdateStatusKeepsMerged(r, state, progress, message, error, now, stems, midi, analysis) ==
    StatusDoc(r.job_id, state, progress, message, error, now, stems, midi, analysis)
        @@ (IF "report_on" \in DOMAIN r.validation_report
            THEN [validation_report |-> r.validation_report] ELSE <<>>)

\* update_status as the run calls it: the directories are listed at the call
UpdateStatus(r, state, progress, message, error, now, stems, midi, analysis) ==
    StatusDoc(r.job_id, state, progress, message, error, now, stems, midi, analysis)

\* lines 208-209: the report is set on the status just read
MergeReport(current_status, report) ==
    DictSet(current_status, "validation_report", report)

\* lines 221-222: the project file is indexed in the status just read
MergeProject(current_status, rpp_name) ==
    DictSet(current_status, "artifacts",
            DictSet(current_status["artifacts"], "project", <<rpp_name>>))

\* the document each write site is about to dump
SiteDoc(r, now, stems, midi, analysis) ==
    CASE r.pc = "status10" ->
            UpdateStatus(r, "processing_stems", 10,
                <<"Starting stem separation", r.separation_model>>, None,
                now, stems, midi, analysis)
      [] r.pc = "status30" ->
            UpdateStatus(r, "processing_stems", 30,
                <<"Refining stems (Vocals, Drums, Instruments)...">>, None,
                now, stems, midi, analysis)
      [] r.pc = "status60" ->
            UpdateStatus(r, "processing_midi", 60,
                <<"Extracting structured MIDI data from stems...">>, None,
                now, stems, midi, analysis)
      [] r.pc = "status_item" ->
            UpdateStatus(r, "processing_midi", ItemProgress(r.i),
                <<"Extracting MIDI", midi_map[r.i][2]>>, None,
                now, stems, midi, analysis)
      [] r.pc = "status85" ->
            UpdateStatus(r, "processing_midi", 85,
                <<"Validating MIDI correctness with Gemini...">>, None,
                now, stems, midi, analysis)
      [] r.pc = "merge_vr" ->
            MergeReport(r.current_status, r.validation_report)
      [] r.pc = "status95" ->
            UpdateStatus(r, "success", 95,
                <<"Generating REAPER Project File...">>, None,
                now, stems, midi, analysis)
      [] r.pc = "merge_project" ->
            MergeProject(r.current_status, RppName(r.job_id))
      [] r.pc = "status100" ->
            UpdateStatus(r, "success", 100,
                <<"Processing complete. Deep stems, MIDI, and REAPER Project are ready.">>,
                None, now, stems, midi, analysis)
      [] r.pc = "status_failed" ->
            UpdateStatus(r, "failed", 0,
                <<"An error occurred during processing.">>, r.error,
                now, stems, midi, analysis)

\* the statement that follows each write
AfterWrite(r, stems) ==
    CASE r.pc = "status10" ->
            [r EXCEPT !.pc = IF RunsUmx(r) THEN "umx"
                             ELSE IF RunsDemucs(r) THEN "demucs" ELSE "status30"]
      [] r.pc = "status30" -> [r EXCEPT !.pc = "refine_vocals"]
      [] r.pc = "status60" -> LoopAdvance([r EXCEPT !.i = 0], stems)
      [] r.pc = "status_item" -> [r EXCEPT !.pc = "extract"]
      [] r.pc = "status85" -> [r EXCEPT !.pc = "validate"]
      [] r.pc = "merge_vr" -> [r EXCEPT !.pc = "status95"]
      [] r.pc = "status95" -> [r EXCEPT !.pc = "generate"]
      [] r.pc = "merge_project" -> [r EXCEPT !.pc = "status100"]
      [] r.pc = "status100" -> [r EXCEPT !.pc = "returned"]
      [] r.pc = "status_failed" -> [r EXCEPT !.pc = "returned"]

\* what the file holds once the writer has closed it: its document, unless
\* another writer replaced the file since this one opened it; the buffered
\* bytes then land at the writer's offset in the other document
Closed(file, buf) ==
    IF file.content = "json" THEN {Json(buf), Torn} ELSE {Json(buf)}

\* the write sites that are update_status calls: each takes a timestamp
UpdateSites == WriteSites \ {"merge_vr", "merge_project"}

\* open(self.status_path, "w"): the document is built, the file truncated
StatusOpen(t) ==
    LET r == run[t]
        j == r.job_id
    IN  /\ r.pc \in WriteSites
        /\ r.w = "idle"
        /\ run' = [run EXCEPT ![t] =
                [r EXCEPT !.w = "open",
                          !.buf = SiteDoc(r, clock, stemsDir[j], midiDir[j],
                                          analysisDir[j])]]
        /\ statusFile' = [statusFile EXCEPT ![j] = Empty]
        /\ clock' = IF r.pc \in UpdateSites THEN Tick(clock) ELSE clock
        /\ resp' = NoResp
        /\ UNCHANGED sessionVars
        /\ UNCHANGED <<inputWav, stemsDir, midiDir, analysisDir, faultsLeft, submitted>>

\* json.dump fills the buffer; a document larger than it reaches the file in parts
StatusFlush(t) ==
    LET r == run[t]
        j == r.job_id
    IN  /\ r.w = "open"
        /\ run' = [run EXCEPT ![t] = [r EXCEPT !.w = "flushed"]]
        /\ statusFile' = [statusFile EXCEPT ![j] = Torn]
        /\ resp' = NoResp
        /\ UNCHANGED <<clock, sessionVars>>
        /\ UNCHANGED <<inputWav, stemsDir, midiDir, analysisDir, faultsLeft, submitted>>

\* leaving the with block: the rest is flushed and the file closed
StatusClose(t) ==
    LET r == run[t]
        j == r.job_id
    IN  /\ r.w \in {"open", "flushed"}
        /\ \E file \in Closed(statusFile[j], r.buf) :
              statusFile' = [statusFile EXCEPT ![j] = file]
        /\ run' = [run EXCEPT ![t] =
                [AfterWrite(r, stemsDir[j]) EXCEPT
                    !.w = "idle", !.buf = NoDoc, !.written = Append(@, r.buf)]]
        /\ resp' = NoResp
        /\ UNCHANGED <<clock, sessionVars>>
        /\ UNCHANGED <<inputWav, stemsDir, midiDir, analysisDir, faultsLeft, submitted>>

(***************************************************************************)
(* The stages of start_processing_pipeline between the status writes.      *)
(***************************************************************************)
SetRun(t, r) == run' = [run EXCEPT ![t] = r]

\* lines 124-131: separate_stems_umx and _move_umx_stems, or the fallback
SeparateUmx(t) ==
    LET r == run[t]
        j == r.job_id
    IN  /\ r.pc = "umx"
        /\ \/ /\ SetRun(t, AfterUmx([Called(r, "separate_stems_umx", "input.wav", "ok")
                                        EXCEPT !.success = TRUE]))
              /\ stemsDir' = [stemsDir EXCEPT ![j] = @ \cup inputWav[j]]
              /\ UNCHANGED faultsLeft
           \/ /\ faultsLeft > 0
              /\ SetRun(t, AfterUmx(UmxFailed(r)))
              /\ faultsLeft' = faultsLeft - 1
              /\ UNCHANGED stemsDir
        /\ resp' = NoResp
        /\ UNCHANGED <<clock, sessionVars>>
        /\ UNCHANGED <<statusFile, inputWav, midiDir, analysisDir, submitted>>

\* lines 133-145: separate_stems_demucs and the move of its output
SeparateDemucs(t) ==
    LET r == run[t]
        j == r.job_id
    IN  /\ r.pc = "demucs"
        /\ \/ /\ SetRun(t, [Called(r, "separate_stems_demucs", "input.wav", "ok")
                                EXCEPT !.success = TRUE, !.pc = "status30"])
              /\ stemsDir' = [stemsDir EXCEPT ![j] = @ \cup inputWav[j]]
              /\ UNCHANGED faultsLeft
           \/ /\ faultsLeft > 0
              /\ SetRun(t, Raise(Called(r, "separate_stems_demucs", "input.wav", "raised"),
                                 "demucs failed"))
              /\ faultsLeft' = faultsLeft - 1
              /\ UNCHANGED stemsDir
        /\ resp' = NoResp
        /\ UNCHANGED <<clock, sessionVars>>
        /\ UNCHANGED <<statusFile, inputWav, midiDir, analysisDir, submitted>>

\* AfterSplit without the os.remove of the coarse stem
AfterSplitKeepsCoarse(stems, coarse) == stems \cup SubStems(coarse)

\* the stems directory after split_*_basic returned and os.remove(coarse)
AfterSplit(stems, coarse) == (stems \cup SubStems(coarse)) \ {coarse}

\* lines 152-167: one coarse stem: split_*_basic, then os.remove of the stem
Refine(t) ==
    LET r == run[t]
        j == r.job_id
        coarse == RefineStem(r.pc)
    IN  /\ r.pc \in RefineSites
        /\ \/ /\ coarse \notin stemsDir[j]
              /\ SetRun(t, [r EXCEPT !.pc = RefineNext(r.pc)])
              /\ UNCHANGED <<stemsDir, faultsLeft>>
           \/ /\ coarse \in stemsDir[j]
              /\ SetRun(t, [Called(r, "split_basic", coarse, "ok")
                                EXCEPT !.pc = RefineNext(r.pc)])
              /\ stemsDir' = [stemsDir EXCEPT ![j] = AfterSplit(@, coarse)]
              /\ UNCHANGED faultsLeft
           \/ /\ coarse \in stemsDir[j]
              /\ faultsLeft > 0
              /\ SetRun(t, Raise(Called(r, "split_basic", coarse, "raised"),
                                 "split failed"))
              /\ faultsLeft' = faultsLeft - 1
              /\ UNCHANGED stemsDir
        /\ resp' = NoResp
        /\ UNCHANGED <<clock, sessionVars>>
        /\ UNCHANGED <<statusFile, inputWav, midiDir, analysisDir, submitted>>

\* lines 192-195: extract_midi_from_audio for the current item
Extract(t) ==
    LET r == run[t]
        j == r.job_id
        midi_name == midi_map[r.i][2]
    IN  /\ r.pc = "extract"
        /\ \/ /\ SetRun(t, [Called(r, "extract_midi_from_audio", midi_name, "ok")
                                EXCEPT !.midi_files_found = Append(@, midi_name),
                                       !.pc = "summarize"])
              /\ midiDir' = [midiDir EXCEPT ![j] = @ \cup {midi_name}]
              /\ UNCHANGED faultsLeft
           \/ /\ faultsLeft > 0
              /\ SetRun(t, ItemFailed(Called(r, "extract_midi_from_audio", midi_name, "raised"),
                                      stemsDir[j]))
              /\ faultsLeft' = faultsLeft - 1
              /\ UNCHANGED midiDir
        /\ resp' = NoResp
        /\ UNCHANGED <<clock, sessionVars>>
        /\ UNCHANGED <<statusFile, inputWav, stemsDir, analysisDir, submitted>>

\* lines 197-198: summarize_midi_file for the file just extracted
Summarize(t) ==
    LET r == run[t]
        j == r.job_id
        midi_name == midi_map[r.i][2]
    IN  /\ r.pc = "summarize"
        /\ \/ /\ SetRun(t, LoopAdvance(
                        [Called(r, "summarize_midi_file", midi_name, "ok")
                            EXCEPT !.midi_summaries = Append(@, Summary(midi_name))],
                        stemsDir[j]))
              /\ UNCHANGED faultsLeft
           \/ /\ faultsLeft > 0
              /\ SetRun(t, ItemFailed(Called(r, "summarize_midi_file", midi_name, "raised"),
                                      stemsDir[j]))
              /\ faultsLeft' = faultsLeft - 1
        /\ resp' = NoResp
        /\ UNCHANGED <<clock, sessionVars>>
        /\ UNCHANGED <<statusFile, inputWav, stemsDir, midiDir, analysisDir, submitted>>

\* line 205: validate_midi_with_gemini on the joined summaries
Validate(t) ==
    LET r == run[t]
    IN  /\ r.pc = "validate"
        /\ \/ /\ SetRun(t, [Called(r, "validate_midi_with_gemini", "summaries", "ok")
                                EXCEPT !.validation_report = Report(r.midi_summaries),
                                       !.pc = "merge_vr_read"])
              /\ UNCHANGED faultsLeft
           \/ /\ faultsLeft > 0
              /\ SetRun(t, Raise(Called(r, "validate_midi_with_gemini", "summaries", "raised"),
                                 "validation failed"))
              /\ faultsLeft' = faultsLeft - 1
        /\ resp' = NoResp
        /\ UNCHANGED <<clock, sessionVars>>
        /\ UNCHANGED <<statusFile, inputWav, stemsDir, midiDir, analysisDir, submitted>>

\* lines 208 and 221: current_status = pipeline.get_status()
MergeRead(t) ==
    LET r == run[t]
        got == GetStatus(statusFile[r.job_id])
    IN  /\ r.pc \in {"merge_vr_read", "merge_project_read"}
        /\ SetRun(t,
              IF got.raised
              THEN Raise(r, "JSONDecodeError")
              ELSE IF r.pc = "merge_project_read" /\ "artifacts" \notin DOMAIN got.value
              THEN Raise(r, "KeyError: artifacts")
              ELSE [r EXCEPT !.current_status = got.value,
                             !.pc = IF r.pc = "merge_vr_read"
                                    THEN "merge_vr" ELSE "merge_project"])
        /\ resp' = NoResp
        /\ UNCHANGED <<clock, sessionVars>>
        /\ UNCHANGED <<statusFile, inputWav, stemsDir, midiDir, analysisDir, faultsLeft,
                       submitted>>

\* lines 215-218: generate_reaper_project
Generate(t) ==
    LET r == run[t]
    IN  /\ r.pc = "generate"
        /\ \/ /\ SetRun(t, [Called(r, "generate_reaper_project", "rpp", "ok")
                                EXCEPT !.pc = "merge_project_read"])
              /\ UNCHANGED faultsLeft
           \/ /\ faultsLeft > 0
              /\ SetRun(t, Raise(Called(r, "generate_reaper_project", "rpp", "raised"),
                                 "project generation failed"))
              /\ faultsLeft' = faultsLeft - 1
        /\ resp' = NoResp
        /\ UNCHANGED <<clock, sessionVars>>
        /\ UNCHANGED <<statusFile, inputWav, stemsDir, midiDir, analysisDir, submitted>>

(***************************************************************************)
(* Concurrency gate: job_manager.run_heavy_task.                           *)
(***************************************************************************)
Executing(r) == r.pc \notin {"queued", "done"}

Running == {t \in Tasks : Executing(run[t])}

\* a slot is free
GateFree(tasks) == Cardinality({t \in DOMAIN tasks : Executing(tasks[t])}) < GateLimit

\* the waiting task that is served next: the one submitted first
GateHead(tasks) ==
    CHOOSE t \in DOMAIN tasks :
        /\ tasks[t].pc = "queued"
        /\ \A u \in DOMAIN tasks : tasks[u].pc = "queued" => t <= u

\* the gate admits the task: start_processing_pipeline is entered
Start(t) ==
    /\ run[t].pc = "queued"
    /\ GateFree(run)
    /\ t = GateHead(run)
    /\ SetRun(t, [run[t] EXCEPT !.pc = "status10"])
    /\ resp' = NoResp
    /\ UNCHANGED <<clock, sessionVars>>
    /\ UNCHANGED <<statusFile, inputWav, stemsDir, midiDir, analysisDir, faultsLeft,
                   submitted>>

\* start_processing_pipeline has returned: the slot is given back
Finish(t) ==
    /\ run[t].pc = "returned"
    /\ SetRun(t, [run[t] EXCEPT !.pc = "done"])
    /\ resp' = NoResp
    /\ UNCHANGED <<clock, sessionVars>>
    /\ UNCHANGED <<statusFile, inputWav, stemsDir, midiDir, analysisDir, faultsLeft,
                   submitted>>

(***************************************************************************)
(* Request handlers: app.py.                                               *)
(***************************************************************************)
\* initialize_job, line 50: update_status("initialized", progress=0)
InitializedDoc(job_id, now, stems, midi, analysis) ==
    StatusDoc(job_id, "initialized", 0, <<"">>, None, now, stems, midi, analysis)

\* AddTask handing start_processing_pipeline to the background tasks directly
AddTaskUngated(tasks, job_id, model) ==
    Append(tasks, [NewRun(job_id, model) EXCEPT !.pc = "status10"])

\* AddTask turning the submission away while no slot is free
AddTaskRejectsWhenBusy(tasks, job_id, model) ==
    IF GateFree(tasks) THEN Append(tasks, NewRun(job_id, model)) ELSE tasks

\* line 92: background_tasks.add_task(run_heavy_task, start_processing_pipeline, ...)
AddTask(tasks, job_id, model) == Append(tasks, NewRun(job_id, model))

\* POST /api/process: the upload is stored as input.wav, the status is reset to
\* initialized and the run is queued behind the gate
ProcessAudio(job_id, model, mix) ==
    /\ inputWav' = [inputWav EXCEPT ![job_id] = mix]
    /\ statusFile' = [statusFile EXCEPT ![job_id] =
            Json(InitializedDoc(job_id, clock, stemsDir[job_id], midiDir[job_id],
                                analysisDir[job_id]))]
    /\ clock' = Tick(clock)
    /\ run' = AddTask(run, job_id, model)
    /\ submitted' = submitted + 1
    /\ resp' = NoResp
    /\ UNCHANGED sessionVars
    /\ UNCHANGED <<stemsDir, midiDir, analysisDir, faultsLeft>>

\* GET /api/process/{job_id}
GetJobStatus(job_id) ==
    /\ resp' = [JobStatusResponse(statusFile[job_id]) EXCEPT !.job_id = job_id]
    /\ UNCHANGED <<clock, sessionVars>>
    /\ UNCHANGED <<statusFile, inputWav, stemsDir, midiDir, analysisDir, run, faultsLeft,
                   submitted>>

\* the job directory and its sub-directories exist once initialize_job ran
JobDirExists(file) == file.content # "absent"

\* str.startswith
StartsWith(str, prefix) ==
    /\ Len(str) >= Len(prefix)
    /\ SubSeq(str, 1, Len(prefix)) = prefix

\* ProviderFor sending every model to the default provider
ProviderForDefaultOnly(modelId) == "gemini"

\* lines 161-181: the provider an analysis is routed to, and the tag recorded
ProviderFor(modelId) ==
    IF StartsWith(modelId, <<"g","p","t","-">>) THEN "openai" ELSE "gemini"

\* LookupProvider with the other provider as the default
LookupProviderDefaultOpenai(providers, sessionId) ==
    IF sessionId \in DOMAIN providers THEN providers[sessionId] ELSE "openai"

\* line 218: _session_providers.get(sessionId, "gemini")
LookupProvider(providers, sessionId) ==
    IF sessionId \in DOMAIN providers THEN providers[sessionId] ELSE "gemini"

\* lines 162, 172 and 219-222: the adapter of a provider
StartSessionOf(provider) ==
    IF provider = "openai" THEN "openai_start_session" ELSE "gemini_start_session"

SendMessageOf(provider) ==
    IF provider = "openai" THEN "openai_send_message" ELSE "gemini_send_message"

\* SaveAnalysis opening advice.txt for append
SaveAnalysisAppends(text, advice_text) == text \o <<advice_text>>

\* save_analysis: open(advice_path, "w") and f.write(advice_text)
SaveAnalysis(text, advice_text) == <<advice_text>>

\* line 233: the block of a follow-up
FollowUp(message, reply) ==
    <<"\n\n--- Follow-up ---\nUser: ", message, "\nAI: ", reply>>

\* SaveFollowUp opening advice.txt for writing
SaveFollowUpOverwrites(text, message, reply) == FollowUp(message, reply)

\* lines 232-233: open(advice_path, "a") and f.write of the block
SaveFollowUp(text, message, reply) == text \o FollowUp(message, reply)

\* an answered start-analysis or chat request
Answer(code, kind, body, job_id, sessionId, via) ==
    [Response(code, kind, body) EXCEPT
        !.job_id = job_id, !.sessionId = sessionId, !.via = via]

\* POST /api/analyze: the job is initialized (input.wav stored, status reset to
\* initialized), the provider chosen by the model id starts a session, the
\* session is tagged and the advice saved
Analyze(job_id, modelId, mix) ==
    LET provider == ProviderFor(modelId)
        via == StartSessionOf(provider)
    IN  /\ inputWav' = [inputWav EXCEPT ![job_id] = mix]
        /\ statusFile' = [statusFile EXCEPT ![job_id] =
                Json(InitializedDoc(job_id, clock, stemsDir[job_id], midiDir[job_id],
                                    analysisDir[job_id]))]
        /\ clock' = Tick(clock)
        /\ requests' = requests + 1
        /\ \/ \* the provider raised: caught at line 200
              /\ faultsLeft > 0
              /\ faultsLeft' = faultsLeft - 1
              /\ resp' = Answer(400, "analyze", [detail |-> "provider failed"],
                                job_id, None, via)
              /\ UNCHANGED <<session_providers, started, advice, analysisDir>>
           \/ \E session_id \in SessionIds, advice_text \in Advices :
                /\ session_providers' = DictSet(session_providers, session_id, provider)
                /\ started' = DictSet(started, session_id, modelId)
                /\ IF advice_text = None
                   THEN /\ resp' = Answer(400, "analyze",
                                [detail |-> "AI Model returned no response. Check API Key and Model ID."],
                                job_id, session_id, via)
                        /\ UNCHANGED <<advice, analysisDir>>
                   ELSE /\ advice' = [advice EXCEPT ![job_id] =
                                        SaveAnalysis(@, advice_text)]
                        /\ analysisDir' = [analysisDir EXCEPT ![job_id] =
                                                @ \cup {"advice.txt"}]
                        /\ resp' = Answer(200, "analyze",
                                [sessionId |-> session_id, jobId |-> job_id,
                                 advice |-> advice_text],
                                job_id, session_id, via)
                /\ UNCHANGED faultsLeft
        /\ UNCHANGED <<stemsDir, midiDir, run, submitted>>

\* POST /api/chat: the message goes to the provider of the session; the reply
\* is appended to the advice of the job when a job id came with the request
ChatReply(sessionId, message, jobId) ==
    LET provider == LookupProvider(session_providers, sessionId)
        via == SendMessageOf(provider)
    IN  /\ requests' = requests + 1
        /\ \/ \* the provider raised: global_exception_handler
              /\ faultsLeft > 0
              /\ faultsLeft' = faultsLeft - 1
              /\ resp' = Answer(400, "chat", [detail |-> "provider failed"],
                                jobId, sessionId, via)
              /\ UNCHANGED <<advice, analysisDir>>
           \/ \E reply \in Replies :
                /\ IF reply = ""
                   THEN /\ resp' = Answer(400, "chat",
                                [detail |-> "AI Model returned no response."],
                                jobId, sessionId, via)
                        /\ UNCHANGED <<advice, analysisDir>>
                   ELSE IF jobId = <<>>
                   THEN /\ resp' = Answer(200, "chat", [reply |-> reply],
                                          jobId, sessionId, via)
                        /\ UNCHANGED <<advice, analysisDir>>
                   ELSE IF ~JobDirExists(statusFile[jobId])
                   THEN /\ resp' = Answer(400, "chat", [detail |-> "FileNotFoundError"],
                                          jobId, sessionId, via)
                        /\ UNCHANGED <<advice, analysisDir>>
                   ELSE /\ advice' = [advice EXCEPT ![jobId] =
                                        SaveFollowUp(@, message, reply)]
                        /\ analysisDir' = [analysisDir EXCEPT ![jobId] =
                                                @ \cup {"advice.txt"}]
                        /\ resp' = Answer(200, "chat", [reply |-> reply],
                                          jobId, sessionId, via)
                /\ UNCHANGED faultsLeft
        /\ UNCHANGED <<statusFile, inputWav, stemsDir, midiDir, run, submitted, clock,
                       session_providers, started>>

(***************************************************************************)
(* Specification.                                                          *)
(***************************************************************************)
Init ==
    /\ statusFile = [j \in JobIds |-> Absent]
    /\ inputWav = [j \in JobIds |-> {}]
    /\ stemsDir = [j \in JobIds |-> {}]
    /\ midiDir = [j \in JobIds |-> {}]
    /\ analysisDir = [j \in JobIds |-> {}]
    /\ run = <<>>
    /\ faultsLeft = MaxFaults
    /\ submitted = 0
    /\ resp = NoResp
    /\ clock = 0
    /\ session_providers = <<>>
    /\ started = <<>>
    /\ advice = [j \in JobIds |-> <<>>]
    /\ requests = 0

\* a step of some run
Pipeline ==
    \/ \E t \in Tasks : Start(t)
    \/ \E t \in Tasks : StatusOpen(t)
    \/ \E t \in Tasks : StatusFlush(t)
    \/ \E t \in Tasks : StatusClose(t)
    \/ \E t \in Tasks : SeparateUmx(t)
    \/ \E t \in Tasks : SeparateDemucs(t)
    \/ \E t \in Tasks : Refine(t)
    \/ \E t \in Tasks : Extract(t)
    \/ \E t \in Tasks : Summarize(t)
    \/ \E t \in Tasks : Validate(t)
    \/ \E t \in Tasks : MergeRead(t)
    \/ \E t \in Tasks : Generate(t)
    \/ \E t \in Tasks : Finish(t)

\* one submission, its run, and status polling at any moment
Next ==
    \/ \E job_id \in JobIds, model \in Models, mix \in Mixes :
            /\ submitted = 0
            /\ ProcessAudio(job_id, model, mix)
    \/ \E job_id \in JobIds : GetJobStatus(job_id)
    \/ Pipeline

Spec == Init /\ [][Next]_vars

\* several submissions, at any moment, queued behind the gate; the clock is
\* past the readings that are told apart
GateModels == {"umx"}

GateMixes == { {"bass.wav"} }

GateNext ==
    \/ \E job_id \in JobIds, model \in GateModels, mix \in GateMixes :
            /\ submitted < MaxTasks
            /\ ProcessAudio(job_id, model, mix)
    \/ Pipeline

GateInit ==
    /\ statusFile = [j \in JobIds |-> Absent]
    /\ inputWav = [j \in JobIds |-> {}]
    /\ stemsDir = [j \in JobIds |-> {}]
    /\ midiDir = [j \in JobIds |-> {}]
    /\ analysisDir = [j \in JobIds |-> {}]
    /\ run = <<>>
    /\ faultsLeft = MaxGateFaults
    /\ submitted = 0
    /\ resp = NoResp
    /\ clock = MaxClock
    /\ session_providers = <<>>
    /\ started = <<>>
    /\ advice = [j \in JobIds |-> <<>>]
    /\ requests = 0

GateSpec == GateInit /\ [][GateNext]_vars

\* start-analysis and chat requests, in any order
SessionNext ==
    \/ \E job_id \in JobIds, modelId \in ModelIds, mix \in GateMixes :
            /\ requests < MaxRequests
            /\ Analyze(job_id, modelId, mix)
    \/ \E sessionId \in SessionIds, message \in Messages, jobId \in JobIds \cup {<<>>} :
            /\ requests < MaxRequests
            /\ ChatReply(sessionId, message, jobId)

SessionSpec == GateInit /\ [][SessionNext]_vars

\* submissions and their runs, with a start-analysis request at any moment
OwnerModelIds == { <<"g","e","m","i","n","i">> }

OwnerNext ==
    \/ \E job_id \in JobIds, model \in GateModels, mix \in GateMixes :
            /\ submitted < MaxTasks
            /\ ProcessAudio(job_id, model, mix)
    \/ \E job_id \in JobIds, modelId \in OwnerModelIds, mix \in GateMixes :
            /\ requests < MaxOverlap
            /\ Analyze(job_id, modelId, mix)
    \/ Pipeline

OwnerSpec == GateInit /\ [][OwnerNext]_vars

\* the steps of task t
Step(t) ==
    /\ t \in Tasks
    /\ \/ Start(t)
       \/ StatusOpen(t)
       \/ StatusFlush(t)
       \/ StatusClose(t)
       \/ SeparateUmx(t)
       \/ SeparateDemucs(t)
       \/ Refine(t)
       \/ Extract(t)
       \/ Summarize(t)
       \/ Validate(t)
       \/ MergeRead(t)
       \/ Generate(t)
       \/ Finish(t)

\* the background workers keep being scheduled: a task that can take a step
\* eventually takes one (every adapter call returns or raises)
FairGateSpec == GateSpec /\ \A t \in 1..MaxTasks : WF_vars(Step(t))

\* the steps of start_processing_pipeline in task t
RunStep(t) ==
    /\ t \in Tasks
    /\ \/ StatusOpen(t)
       \/ StatusFlush(t)
       \/ StatusClose(t)
       \/ SeparateUmx(t)
       \/ SeparateDemucs(t)
       \/ Refine(t)
       \/ Extract(t)
       \/ Summarize(t)
       \/ Validate(t)
       \/ MergeRead(t)
       \/ Generate(t)

\* a run that has started keeps going: every adapter call returns or raises and
\* the worker thread is not starved; nothing is assumed of the gate
FairRunSpec == GateSpec /\ \A t \in 1..MaxTasks : WF_vars(RunStep(t))

(***************************************************************************)
(* Vocabulary of the properties.                                           *)
(***************************************************************************)
\* start_processing_pipeline has returned
Returned(r) == r.pc \in {"returned", "done"}

\* the run made the adapter call, with the given outcome
Did(r, adapter, how) ==
    \E k \in 1..Len(r.calls) : r.calls[k][1] = adapter /\ r.calls[k][3] = how

DidItem(r, adapter, item) ==
    \E k \in 1..Len(r.calls) : r.calls[k][1] = adapter /\ r.calls[k][2] = item

\* an adapter whose exception is not caught inside the stage raised
FatalRaised(r) ==
    \E k \in 1..Len(r.calls) :
        /\ r.calls[k][3] = "raised"
        /\ r.calls[k][1] \in {"separate_stems_demucs", "split_basic",
                              "validate_midi_with_gemini", "generate_reaper_project"}

\* the last document the run wrote
FinalWritten(r) == Last(r.written)

\* the run returned and its last document says success
Succeeded(r) ==
    /\ Returned(r)
    /\ DictGet(FinalWritten(r), "state") = "success"

\* no other submission names the job of task t
OnlyRunOfJob(t) == \A u \in Tasks \ {t} : run[u].job_id # run[t].job_id

\* the progress values of the documents the run wrote, in order
Progresses(r) == [k \in 1..Len(r.written) |-> DictGet(r.written[k], "progress")]

(***************************************************************************)
(* C1.  For every run that ends in success, the status read after the run  *)
(* has returned has state success, progress 100 and an artifacts.project   *)
(* list with exactly one entry, the project file name registered in stage  *)
(* 5: the final status update does not lose the registration.              *)
(***************************************************************************)
C1_FinalSnapshotKeepsProject ==
    \A t \in Tasks :
        Succeeded(run[t]) =>
            LET got == GetStatus(statusFile[run[t].job_id])
                status == got.value
            IN  /\ ~got.raised
                /\ DictGet(status, "state") = "success"
                /\ DictGet(status, "progress") = 100
                /\ "artifacts" \in DOMAIN status
                /\ "project" \in DOMAIN status["artifacts"]
                /\ status["artifacts"]["project"] = <<RppName(run[t].job_id)>>

(***************************************************************************)
(* C2.  Once the validation report has been merged into the status, every  *)
(* document the run writes afterwards, the final one of a successful run   *)
(* included, carries the validation_report field with that report.         *)
(***************************************************************************)
C2_ReportKeptAfterMerge ==
    \A t \in Tasks :
        \A k, m \in 1..Len(run[t].written) :
            (k < m /\ "validation_report" \in DOMAIN run[t].written[k]) =>
                /\ "validation_report" \in DOMAIN run[t].written[m]
                /\ run[t].written[m]["validation_report"] =
                        Report(run[t].midi_summaries)

(***************************************************************************)
(* C3.  A status request that overlaps a status write of a run is answered *)
(* from a complete document, the previous one or the new one; the reader   *)
(* never finds an empty, truncated or partly written status.json.          *)
(***************************************************************************)
C3_ReadersSeeCompleteSnapshots ==
    resp.kind # "none" =>
        /\ resp.kind = "status"
        /\ \/ resp.body = NotFoundDoc
           \/ \E t \in Tasks :
                /\ run[t].job_id = resp.job_id
                /\ \/ resp.body \in {run[t].written[k] : k \in 1..Len(run[t].written)}
                   \/ resp.body = InitializedDoc(resp.job_id, 0, {}, {}, {})

(***************************************************************************)
(* C10.  The status endpoint tells its outcomes apart: 404 for a job id    *)
(* with no stored status, 400 for a stored status whose error is not null, *)
(* the status itself (200) otherwise.                                      *)
(***************************************************************************)
C10_StatusLookupOutcomes ==
    resp.kind # "none" =>
        LET file == statusFile[resp.job_id]
        IN  /\ file.content = "absent" => resp.code = 404
            /\ (file.content = "json" /\ JsonLoad(file.doc)["error"] # None) =>
                    resp.code = 400
            /\ (file.content = "json" /\ JsonLoad(file.doc)["error"] = None) =>
                    (resp.code = 200 /\ resp.body = JsonLoad(file.doc))

(***************************************************************************)
(* More vocabulary.                                                        *)
(***************************************************************************)
Called2(r, adapter) == \E k \in 1..Len(r.calls) : r.calls[k][1] = adapter

\* the run failed reading status.json back for a merge
StatusReadFailed(r) == r.error \in {"JSONDecodeError", "KeyError: artifacts"}

\* the run has written the status that opens the transcription stage
Wrote60(r) ==
    \E k \in 1..Len(r.written) :
        /\ DictGet(r.written[k], "state") = "processing_midi"
        /\ DictGet(r.written[k], "progress") = 60

\* how many entries of midi_map the transcription loop has left behind
LoopPassed(r) ==
    IF r.pc \in {"status_item", "extract", "summarize"} THEN r.i - 1
    ELSE IF Wrote60(r) THEN Len(midi_map)
    ELSE 0

NonDecreasing(s) == \A a, b \in 1..Len(s) : a < b => s[a] <= s[b]

IsMilestone(p) == p \in {10, 30, 60, 85, 95, 100}

RECURSIVE Dedup(_)
Dedup(s) ==
    IF Len(s) <= 1 THEN s
    ELSE IF s[1] = s[2] THEN Dedup(Tail(s))
    ELSE <<s[1]>> \o Dedup(Tail(s))

\* the milestones a progress sequence passes through, in order
MilestonesOf(s) == Dedup(SelectSeq(s, IsMilestone))

(***************************************************************************)
(* C4.  Separation fallback: when umx was requested and raised, demucs is  *)
(* attempted; the run then ends in success if demucs and every later stage *)
(* succeed, and in failed with a non-null error if demucs raised too.      *)
(***************************************************************************)
C4_SeparationFallback ==
    \A t \in Tasks :
        LET r == run[t]
        IN  Did(r, "separate_stems_umx", "raised") =>
                /\ r.pc = "demucs" \/ Called2(r, "separate_stems_demucs")
                /\ ( /\ Returned(r)
                     /\ Did(r, "separate_stems_demucs", "ok")
                     /\ ~FatalRaised(r)
                     /\ ~StatusReadFailed(r) ) =>
                        /\ DictGet(FinalWritten(r), "state") = "success"
                        /\ DictGet(FinalWritten(r), "progress") = 100
                /\ ( /\ Returned(r)
                     /\ Did(r, "separate_stems_demucs", "raised") ) =>
                        /\ DictGet(FinalWritten(r), "state") = "failed"
                        /\ DictGet(FinalWritten(r), "error") # None

\* umx raised, demucs took over and the run ended in success
C4_Witness ==
    \E t \in Tasks :
        /\ Did(run[t], "separate_stems_umx", "raised")
        /\ Did(run[t], "separate_stems_demucs", "ok")
        /\ Succeeded(run[t])
        /\ run[t].requested = "umx"

(***************************************************************************)
(* C5.  Transcription isolation: every mapped stem that is present gets    *)
(* its transcription attempt whatever happened to the items before it, a   *)
(* failed item never makes the run write state failed, and the run goes on *)
(* to project generation.                                                  *)
(***************************************************************************)
C5_TranscriptionIsolation ==
    \A t \in Tasks :
        LET r == run[t]
            stems == stemsDir[r.job_id]
        IN  /\ \A k \in 1..Len(midi_map) :
                    (k <= LoopPassed(r) /\ midi_map[k][1] \in stems) =>
                        DidItem(r, "extract_midi_from_audio", midi_map[k][2])
            /\ (\E k \in 1..Len(r.written) : DictGet(r.written[k], "state") = "failed") =>
                    (FatalRaised(r) \/ StatusReadFailed(r))
            /\ (Returned(r) /\ ~FatalRaised(r) /\ ~StatusReadFailed(r)) =>
                    Did(r, "generate_reaper_project", "ok")

\* an item raised, a later item was still transcribed, the run ended in success
C5_Witness ==
    \E t \in Tasks :
        /\ Succeeded(run[t])
        /\ \E a, b \in 1..Len(run[t].calls) :
                /\ a < b
                /\ run[t].calls[a][1] \in {"extract_midi_from_audio", "summarize_midi_file"}
                /\ run[t].calls[a][3] = "raised"
                /\ run[t].calls[b][1] = "extract_midi_from_audio"
                /\ run[t].calls[b][3] = "ok"

(***************************************************************************)
(* C6, as claimed.  Within a successful run the progress values written    *)
(* are non-decreasing and pass through 10, 30, 60, 85, 95, 100 in that     *)
(* order, the per-item values lying between 60 and 85.                     *)
(***************************************************************************)
C6_AllMilestones ==
    \A t \in Tasks :
        Succeeded(run[t]) =>
            LET p == Progresses(run[t])
            IN  /\ NonDecreasing(p)
                /\ MilestonesOf(p) = <<10, 30, 60, 85, 95, 100>>
                /\ \A k \in 1..Len(p) : ~IsMilestone(p[k]) => (60 < p[k] /\ p[k] < 85)

(***************************************************************************)
(* C6, amended.  Within a successful run the progress values written are   *)
(* non-decreasing and pass through 10, 30, 60, 95, 100 in that order, with *)
(* 85 between 60 and 95 exactly when at least one transcription summary    *)
(* was produced; the per-item values lie between 60 and 85.                *)
(***************************************************************************)
C6_MonotonicProgress ==
    \A t \in Tasks :
        Succeeded(run[t]) =>
            LET p == Progresses(run[t])
            IN  /\ NonDecreasing(p)
                /\ MilestonesOf(p) =
                        IF run[t].midi_summaries # <<>>
                        THEN <<10, 30, 60, 85, 95, 100>>
                        ELSE <<10, 30, 60, 95, 100>>
                /\ \A k \in 1..Len(p) : ~IsMilestone(p[k]) => (60 < p[k] /\ p[k] < 85)

\* a successful run that transcribed a later item and kept no summary
C6_Witness ==
    \E t \in Tasks :
        /\ Succeeded(run[t])
        /\ run[t].midi_summaries = <<>>
        /\ \E k \in 1..Len(run[t].written) :
                LET p == DictGet(run[t].written[k], "progress")
                IN  60 < p /\ p < 85

(***************************************************************************)
(* C7.  Validation skip: a run that produced no transcription summary      *)
(* never calls the validator, and the last status it writes has no         *)
(* validation_report field.                                                *)
(***************************************************************************)
C7_ValidationSkip ==
    \A t \in Tasks :
        LET r == run[t]
            file == statusFile[r.job_id]
        IN  r.midi_summaries = <<>> =>
                /\ ~Called2(r, "validate_midi_with_gemini")
                /\ Returned(r) =>
                        /\ "validation_report" \notin DOMAIN FinalWritten(r)
                        /\ (OnlyRunOfJob(t) /\ file.content = "json") =>
                                "validation_report" \notin DOMAIN JsonLoad(file.doc)

\* a run returned with a MIDI file extracted and no summary kept
C7_Witness ==
    \E t \in Tasks :
        /\ Returned(run[t])
        /\ run[t].midi_summaries = <<>>
        /\ run[t].midi_files_found # <<>>

(***************************************************************************)
(* C8.  Gate bound: at most GateLimit runs execute at once; a job          *)
(* submitted while the gate is full keeps the initialized status written   *)
(* by its submission, its run cannot start in a step taken while the gate  *)
(* is full, and the first status a run writes is processing_stems.         *)
(***************************************************************************)
C8_BoundAndInitialized ==
    /\ Cardinality(Running) <= GateLimit
    /\ \A t \in Tasks :
            LET r == run[t]
                file == statusFile[r.job_id]
            IN  /\ (r.pc = "queued" /\ OnlyRunOfJob(t)) =>
                        /\ file.content = "json"
                        /\ DictGet(JsonLoad(file.doc), "state") = "initialized"
                /\ Len(r.written) >= 1 =>
                        DictGet(r.written[1], "state") = "processing_stems"

C8_WaitsWhileFull ==
    \A t \in Tasks :
        (run[t].pc = "queued" /\ Cardinality(Running) >= GateLimit) =>
            run'[t].pc = "queued"

C8_GateBound == [](C8_BoundAndInitialized) /\ [][C8_WaitsWhileFull]_vars

\* the gate is full, a run is under way, and another job waits at initialized
C8_Witness ==
    \E t, u \in Tasks :
        /\ t # u
        /\ Cardinality(Running) = GateLimit
        /\ Executing(run[u])
        /\ Len(run[u].written) >= 1
        /\ run[t].pc = "queued"
        /\ OnlyRunOfJob(t)
        /\ statusFile[run[t].job_id].content = "json"
        /\ DictGet(JsonLoad(statusFile[run[t].job_id].doc), "state") = "initialized"

(***************************************************************************)
(* C9.  Gate queueing: every submission becomes a task and no task is ever *)
(* removed, replaced or sent back to the queue; waiting tasks start in     *)
(* submission order; and with the workers scheduled fairly every queued    *)
(* task eventually starts: again and again no task is left waiting.        *)
(***************************************************************************)
C9_AcceptedInOrder ==
    /\ Len(run) = submitted
    /\ \A t, u \in Tasks : (t < u /\ run[u].pc # "queued") => run[t].pc # "queued"

C9_NeverDropped ==
    \A t \in Tasks :
        /\ t \in 1..Len(run')
        /\ run'[t].job_id = run[t].job_id
        /\ run'[t].requested = run[t].requested
        /\ run[t].pc # "queued" => run'[t].pc # "queued"

C9_GateQueueing ==
    /\ [](C9_AcceptedInOrder)
    /\ [][C9_NeverDropped]_vars
    /\ []<>(\A t \in Tasks : run[t].pc # "queued")

\* the task submitted first is done and the one behind it is executing
C9_Witness ==
    \E t, u \in Tasks :
        /\ t < u
        /\ run[t].pc = "done"
        /\ Executing(run[u])
        /\ Len(run[u].written) >= 1

(***************************************************************************)
(* Vocabulary of the later properties.                                     *)
(***************************************************************************)
StatusStates == {"initialized", "processing_stems", "processing_midi",
                 "success", "failed"}

TerminalStates == {"success", "failed"}

\* the state of the k-th document a run wrote
WrittenState(r, k) == DictGet(r.written[k], "state")

(***************************************************************************)
(* C11.  The state of every status document is one of initialized,         *)
(* processing_stems, processing_midi, success, failed, and success and     *)
(* failed are terminal: after a run wrote a document with state success or *)
(* failed, no document it writes later has another state.                  *)
(***************************************************************************)
C11_TerminalStates ==
    \A t \in Tasks :
        \A k, m \in 1..Len(run[t].written) :
            /\ WrittenState(run[t], k) \in StatusStates
            /\ (k < m /\ WrittenState(run[t], k) \in TerminalStates) =>
                    WrittenState(run[t], m) = WrittenState(run[t], k)

\* the model id names an OpenAI model: its first four characters are "gpt-"
IsGptModel(modelId) ==
    /\ Len(modelId) >= 4
    /\ <<modelId[1], modelId[2], modelId[3], modelId[4]>> = <<"g", "p", "t", "-">>

\* the reasons a chat request fails that are the provider's or the job's
ChatFailures == {"provider failed", "AI Model returned no response.",
                 "FileNotFoundError"}

(***************************************************************************)
(* C12.  Unmapped session: a chat request whose session id has no entry in *)
(* the session map is sent to the default provider, gemini; when it fails  *)
(* it fails for the provider's answer or the job's directory, never for    *)
(* the missing entry; and the lookup adds no entry to the map.             *)
(***************************************************************************)
C12_DefaultsToGemini ==
    (resp.kind = "chat" /\ resp.sessionId \notin DOMAIN session_providers) =>
        /\ resp.via = "gemini_send_message"
        /\ resp.code \in {200, 400}
        /\ resp.code = 400 => resp.body.detail \in ChatFailures

C12_LookupAddsNothing ==
    resp'.kind = "chat" => session_providers' = session_providers

C12_UnmappedSession == [](C12_DefaultsToGemini) /\ [][C12_LookupAddsNothing]_vars

\* a chat for a session without an entry was answered by gemini while another
\* session is tagged openai
C12_Witness ==
    /\ resp.kind = "chat"
    /\ resp.code = 200
    /\ resp.sessionId \notin DOMAIN session_providers
    /\ resp.via = "gemini_send_message"
    /\ \E s \in DOMAIN session_providers : session_providers[s] = "openai"

(***************************************************************************)
(* C13.  Session routing: a chat request for a session that a start-       *)
(* analysis request created is sent to the provider that created it,       *)
(* openai when the model id of that request started with "gpt-" and gemini *)
(* otherwise; the entry of a session changes in no step other than a       *)
(* start-analysis request that creates that session.                       *)
(***************************************************************************)
C13_DispatchFollowsCreator ==
    /\ DOMAIN session_providers = DOMAIN started
    /\ \A s \in DOMAIN started :
            session_providers[s] =
                IF IsGptModel(started[s]) THEN "openai" ELSE "gemini"
    /\ (resp.kind = "chat" /\ resp.sessionId \in DOMAIN started) =>
            resp.via = IF IsGptModel(started[resp.sessionId])
                       THEN "openai_send_message" ELSE "gemini_send_message"

C13_EntriesStable ==
    \A s \in DOMAIN session_providers :
        /\ s \in DOMAIN session_providers'
        /\ session_providers'[s] # session_providers[s] =>
                (resp'.kind = "analyze" /\ resp'.sessionId = s)

C13_RoutingConsistency ==
    [](C13_DispatchFollowsCreator) /\ [][C13_EntriesStable]_vars

\* with one session of each provider in the map, a chat for the openai session
\* was answered by openai
C13_Witness ==
    /\ resp.kind = "chat"
    /\ resp.code = 200
    /\ resp.sessionId \in DOMAIN started
    /\ IsGptModel(started[resp.sessionId])
    /\ resp.via = "openai_send_message"
    /\ \E s \in DOMAIN session_providers : session_providers[s] = "gemini"

(***************************************************************************)
(* C14.  Status round trip: with no write in between, get_status after a   *)
(* status write returns exactly the document that was written, with the    *)
(* same job id, state, progress, message, error, updated_at and artifact   *)
(* lists: read from the file of a run that is not writing, and read by the *)
(* run itself before a merge.                                              *)
(***************************************************************************)
C14_StatusRoundTrip ==
    \A t \in Tasks :
        LET r == run[t]
            got == GetStatus(statusFile[r.job_id])
        IN  /\ (r.w = "idle" /\ Len(r.written) >= 1 /\ OnlyRunOfJob(t)) =>
                    /\ ~got.raised
                    /\ got.value = Last(r.written)
                    /\ DOMAIN got.value = DOMAIN Last(r.written)
            /\ (r.pc \in {"merge_vr", "merge_project"} /\ r.w = "idle"
                    /\ OnlyRunOfJob(t)) =>
                    r.current_status = Last(r.written)

\* a failed run: the document read back carries the error text, the timestamp
\* of the write and the listing of the stems
C14_Witness ==
    \E t \in Tasks :
        LET r == run[t]
            got == GetStatus(statusFile[r.job_id])
        IN  /\ Returned(r)
            /\ ~got.raised
            /\ got.value = Last(r.written)
            /\ got.value["state"] = "failed"
            /\ got.value["error"] # None
            /\ got.value["updated_at"] = IsoFormat(MaxClock)
            /\ got.value["artifacts"]["stems"] # <<>>

\* the text is a sequence of follow-up blocks
IsFollowUps(text) ==
    /\ Len(text) % 4 = 0
    /\ \A k \in 1..Len(text) :
            /\ k % 4 = 1 => text[k] = "\n\n--- Follow-up ---\nUser: "
            /\ k % 4 = 2 => text[k] \in Messages
            /\ k % 4 = 3 => text[k] = "\nAI: "
            /\ k % 4 = 0 => text[k] \in Replies \ {""}

(***************************************************************************)
(* C15.  Advice record: an answered start-analysis request leaves the      *)
(* advice record of its job holding the new advice and nothing else; an    *)
(* answered chat request with a job id leaves the record as it was with    *)
(* one follow-up block (delimiter, message, reply) added at its end; no    *)
(* other step changes a record.  The record is therefore the last advice   *)
(* followed by the blocks of the follow-ups since, in request order.       *)
(***************************************************************************)
C15_RecordShape ==
    \A j \in JobIds :
        /\ "advice.txt" \in analysisDir[j] \/ advice[j] = <<>>
        /\ \/ IsFollowUps(advice[j])
           \/ /\ advice[j] # <<>>
              /\ Head(advice[j]) \in Advices \ {None}
              /\ IsFollowUps(Tail(advice[j]))

C15_SaveOrAppend ==
    \A j \in JobIds :
        IF resp'.kind = "analyze" /\ resp'.code = 200 /\ resp'.job_id = j
        THEN advice'[j] = <<resp'.body.advice>>
        ELSE IF resp'.kind = "chat" /\ resp'.code = 200 /\ resp'.job_id = j
        THEN \E message \in Messages :
                advice'[j] = advice[j] \o
                    <<"\n\n--- Follow-up ---\nUser: ", message,
                      "\nAI: ", resp'.body.reply>>
        ELSE advice'[j] = advice[j]

C15_AdviceRecord == [](C15_RecordShape) /\ [][C15_SaveOrAppend]_vars

\* one analysis and two follow-ups: the advice, then the two blocks in order
C15_Witness ==
    \E j \in JobIds :
        /\ resp.kind = "chat"
        /\ resp.code = 200
        /\ resp.job_id = j
        /\ advice[j] = <<"Cut 300 Hz on the bass.">>
                \o FollowUp("Louder?", "Yes.") \o FollowUp("Wider?", "Yes.")

\* the adapters whose exception reaches the except clause of the run
FatalAdapters == {"separate_stems_demucs", "split_basic",
                  "validate_midi_with_gemini", "generate_reaper_project"}

\* str(e) for the exception of each of them
ExceptionText(adapter) ==
    CASE adapter = "separate_stems_demucs"     -> "demucs failed"
      [] adapter = "split_basic"               -> "split failed"
      [] adapter = "validate_midi_with_gemini" -> "validation failed"
      [] adapter = "generate_reaper_project"   -> "project generation failed"

(***************************************************************************)
(* C16.  Fatal failure: once separation (after the fallback), a sub-split, *)
(* validation or project generation has raised, the run calls no further   *)
(* stage adapter; it goes to the failed status, and the last document it   *)
(* writes has state failed and an error that is not null and is the text   *)
(* of that exception.                                                      *)
(***************************************************************************)
C16_FatalFailureAborts ==
    \A t \in Tasks :
        LET r == run[t]
        IN  \A k \in 1..Len(r.calls) :
                (r.calls[k][3] = "raised" /\ r.calls[k][1] \in FatalAdapters) =>
                    /\ k = Len(r.calls)
                    /\ r.pc \in {"status_failed", "returned", "done"}
                    /\ r.error = ExceptionText(r.calls[k][1])
                    /\ Returned(r) =>
                            /\ WrittenState(r, Len(r.written)) = "failed"
                            /\ FinalWritten(r)["error"] # None
                            /\ FinalWritten(r)["error"] = ExceptionText(r.calls[k][1])

\* validation raised after MIDI files were extracted: the run returned, failed,
\* without generating the project
C16_Witness ==
    \E t \in Tasks :
        /\ Returned(run[t])
        /\ Did(run[t], "validate_midi_with_gemini", "raised")
        /\ ~Called2(run[t], "generate_reaper_project")
        /\ FinalWritten(run[t])["state"] = "failed"
        /\ FinalWritten(run[t])["error"] = "validation failed"

(***************************************************************************)
(* C17.  Single writer during a run: while a run is between its first      *)
(* status write and its return, and is not in the middle of a write, a     *)
(* complete document in the status file of its job is the document that    *)
(* run wrote last: no request handled meanwhile (a start-analysis request, *)
(* another submission with the same job id) has overwritten or reset it.   *)
(***************************************************************************)
C17_RunOwnsSnapshot ==
    \A t \in Tasks :
        LET r == run[t]
        IN  ( /\ Executing(r)
              /\ r.pc # "returned"
              /\ r.w = "idle"
              /\ Len(r.written) >= 1
              /\ statusFile[r.job_id].content = "json" ) =>
                statusFile[r.job_id] = Json(Last(r.written))

\* the coarse stems the refinement stage splits
RefinedStems == {"vocals.wav", "drums.wav", "other.wav"}

\* the refinement stage of the run is over: the run is at the status write that
\* opens transcription, or past it
RefinementDone(r) == r.pc = "status60" \/ Wrote60(r)

\* the adapter call a step of run t added to its history, <<>> if none
NewCall(t) ==
    IF t \in DOMAIN run' /\ Len(run'[t].calls) > Len(run[t].calls)
    THEN Last(run'[t].calls) ELSE <<>>

(***************************************************************************)
(* C18.  Refinement: a sub-split is called only for a coarse stem that is  *)
(* in the stems directory, and a coarse stem leaves the directory only in  *)
(* the step in which its sub-split returned; a coarse stem that separation *)
(* did not produce is skipped, with no call and no failure; and once the   *)
(* refinement stage is over none of vocals.wav, drums.wav, other.wav is    *)
(* left in the directory.                                                  *)
(***************************************************************************)
C18_NoCoarseStemLeft ==
    \A t \in Tasks :
        LET r == run[t]
            j == r.job_id
        IN  (RefinementDone(r) /\ OnlyRunOfJob(t)) =>
                /\ stemsDir[j] \cap RefinedStems = {}
                /\ \A coarse \in RefinedStems :
                        /\ coarse \in inputWav[j] <=>
                                \E k \in 1..Len(r.calls) :
                                    r.calls[k] = <<"split_basic", coarse, "ok">>
                        /\ coarse \in inputWav[j] => SubStems(coarse) \subseteq stemsDir[j]
                /\ ~Did(r, "split_basic", "raised")

C18_SplitThenDelete ==
    \A t \in Tasks :
        LET j == run[t].job_id
            call == NewCall(t)
        IN  /\ (call # <<>> /\ call[1] = "split_basic") => call[2] \in stemsDir[j]
            /\ \A coarse \in RefinedStems :
                    (coarse \in stemsDir[j] /\ coarse \notin stemsDir'[j]) =>
                        call = <<"split_basic", coarse, "ok">>

C18_Refinement == [](C18_NoCoarseStemLeft) /\ [][C18_SplitThenDelete]_vars

\* a mix with vocals and bass only went through refinement: vocals.wav was split
\* and removed, the absent drums.wav and other.wav were skipped
C18_Witness ==
    \E t \in Tasks :
        /\ RefinementDone(run[t])
        /\ Did(run[t], "split_basic", "ok")
        /\ "bass.wav" \in stemsDir[run[t].job_id]
        /\ "vocals_lead.wav" \in stemsDir[run[t].job_id]
        /\ "snare.wav" \notin stemsDir[run[t].job_id]

\* the transcription loop of the run is over
LoopOver(r) ==
    /\ Wrote60(r)
    /\ r.pc \notin {"status_item", "extract", "summarize"}

(***************************************************************************)
(* C19.  One summary per transcribed item: when the transcription stage is *)
(* over, the summaries kept are, in mapping order, the summaries of the    *)
(* MIDI files recorded as transcribed (the list handed to project          *)
(* generation): as many summaries as files, the k-th summary being that of *)
(* the k-th file.                                                          *)
(***************************************************************************)
C19_SummaryPerTranscribed ==
    \A t \in Tasks :
        LET r == run[t]
        IN  LoopOver(r) =>
                /\ Len(r.midi_summaries) = Len(r.midi_files_found)
                /\ \A k \in 1..Len(r.midi_files_found) :
                        /\ k <= Len(r.midi_summaries)
                        /\ r.midi_summaries[k] = Summary(r.midi_files_found[k])

(***************************************************************************)
(* C20.  Run termination: a run that has returned wrote at least one       *)
(* document and the last one has state success or failed, and so does the  *)
(* status file of a job no other submission names; and, every adapter call *)
(* returning or raising and the worker not starved, every run that has    *)
(* started returns: again and again no run is between start and return.    *)
(***************************************************************************)
C20_EndsTerminal ==
    \A t \in Tasks :
        LET r == run[t]
            file == statusFile[r.job_id]
        IN  Returned(r) =>
                /\ Len(r.written) >= 1
                /\ WrittenState(r, Len(r.written)) \in TerminalStates
                /\ r.w = "idle"
                /\ OnlyRunOfJob(t) =>
                        /\ file.content = "json"
                        /\ DictGet(JsonLoad(file.doc), "state") \in TerminalStates

C20_RunTermination ==
    /\ [](C20_EndsTerminal)
    /\ []<>(\A t \in Tasks : run[t].pc \in {"queued", "returned", "done"})

\* one run ended failed and the one after it ended in success
C20_Witness ==
    \E t, u \in Tasks :
        /\ t < u
        /\ run[t].pc = "done"
        /\ run[u].pc = "done"
        /\ WrittenState(run[t], Len(run[t].written)) = "failed"
        /\ WrittenState(run[u], Len(run[u].written)) = "success"

(***************************************************************************)
(* C21.  Strategy selection: a run that has left the separation stage has  *)
(* called separate_stems_demucs exactly when the requested selector is not *)
(* umx or its umx call raised.  A selector that is neither umx nor demucs  *)
(* runs demucs instead of failing, a umx call that succeeded is never      *)
(* followed by a demucs call, and each of the two is called at most once   *)
(* in a run.                                                               *)
(***************************************************************************)
CallCount(r, adapter) ==
    Cardinality({k \in 1..Len(r.calls) : r.calls[k][1] = adapter})

\* the run has gone past lines 124-145
SeparationOver(r) == r.pc \notin {"queued", "status10", "umx", "demucs"}

\* the condition under which the claim says demucs runs
DemucsDue(r) == r.requested # "umx" \/ Did(r, "separate_stems_umx", "raised")

C21_DemucsExactlyWhenDue ==
    \A t \in Tasks :
        LET r == run[t]
        IN  /\ Called2(r, "separate_stems_demucs") => DemucsDue(r)
            /\ (SeparationOver(r) /\ DemucsDue(r)) =>
                    Called2(r, "separate_stems_demucs")
            /\ Called2(r, "separate_stems_umx") <=>
                    (r.requested = "umx" /\ r.pc \notin {"queued", "status10", "umx"})

C21_UnknownSelectorRunsDemucs ==
    \A t \in Tasks :
        LET r == run[t]
        IN  (r.requested \notin {"umx", "demucs"} /\ SeparationOver(r)) =>
                /\ Called2(r, "separate_stems_demucs")
                /\ ~Called2(r, "separate_stems_umx")
                /\ r.error # None =>
                        \/ FatalRaised(r)
                        \/ StatusReadFailed(r)

C21_AtMostOnce ==
    \A t \in Tasks :
        LET r == run[t]
        IN  /\ CallCount(r, "separate_stems_umx") <= 1
            /\ CallCount(r, "separate_stems_demucs") <= 1
            /\ Did(r, "separate_stems_umx", "ok") =>
                    ~Called2(r, "separate_stems_demucs")

C21_StrategySelection ==
    /\ C21_DemucsExactlyWhenDue
    /\ C21_UnknownSelectorRunsDemucs
    /\ C21_AtMostOnce

\* a run asked for a selector that is neither umx nor demucs, separated with
\* demucs and ended in success
C21_Witness ==
    \E t \in Tasks :
        /\ run[t].requested \notin {"umx", "demucs"}
        /\ Did(run[t], "separate_stems_demucs", "ok")
        /\ CallCount(run[t], "separate_stems_demucs") = 1
        /\ Succeeded(run[t])

(***************************************************************************)
(* C22.  Failure snapshot shape: every document a run writes with state    *)
(* failed has progress 0 and a non-null error, whatever progress the run   *)
(* had reported before, and has exactly the keys update_status builds: no  *)
(* validation_report and no artifacts.project, also when the report was    *)
(* merged into an earlier document of the run.  A run that raised writes   *)
(* such a document last, with the text of its exception.                   *)
(***************************************************************************)
StatusKeys ==
    {"job_id", "state", "progress", "message", "error", "updated_at", "artifacts"}

ArtifactKeys == {"stems", "midi", "analysis"}

\* the shape the claim gives the failure snapshot
FailureShape(d) ==
    /\ DictGet(d, "state") = "failed"
    /\ DictGet(d, "progress") = 0
    /\ DictGet(d, "error") # None
    /\ "validation_report" \notin DOMAIN d
    /\ DOMAIN d = StatusKeys
    /\ "project" \notin DOMAIN d["artifacts"]
    /\ DOMAIN d["artifacts"] = ArtifactKeys

\* an earlier document of the run carried the validation report
ReportMergedBefore(r, k) ==
    \E m \in 1..(k - 1) : "validation_report" \in DOMAIN r.written[m]

C22_FailedDocuments ==
    \A t \in Tasks :
        LET r == run[t]
        IN  /\ \A k \in 1..Len(r.written) :
                    WrittenState(r, k) = "failed" =>
                        /\ FailureShape(r.written[k])
                        /\ r.written[k]["error"] = r.error
                        /\ k = Len(r.written)
            /\ (r.pc = "status_failed" /\ r.w # "idle") => FailureShape(r.buf)

C22_RaisedWritesFailed ==
    \A t \in Tasks :
        LET r == run[t]
            file == statusFile[r.job_id]
        IN  (Returned(r) /\ r.error # None) =>
                /\ Len(r.written) >= 1
                /\ FailureShape(FinalWritten(r))
                /\ (OnlyRunOfJob(t) /\ file.content = "json") =>
                        FailureShape(JsonLoad(file.doc))

C22_FailureSnapshotShape ==
    /\ C22_FailedDocuments
    /\ C22_RaisedWritesFailed

\* project generation raised after the report was merged and 95 reported: the
\* run's last document is the failure snapshot
C22_Witness ==
    \E t \in Tasks :
        LET r == run[t]
        IN  /\ Returned(r)
            /\ Did(r, "generate_reaper_project", "raised")
            /\ ReportMergedBefore(r, Len(r.written))
            /\ \E m \in 1..Len(r.written) : Progresses(r)[m] = 95
            /\ FailureShape(FinalWritten(r))
            /\ statusFile[r.job_id].content = "json"
            /\ FailureShape(JsonLoad(statusFile[r.job_id].doc))

====
